---- MODULE Spec2Model ----
(***************************************************************************)
(* A model of the sorting-puzzle search engine of                          *)
(* src/search_algorithms/part_a.py: class Search with its successor        *)
(* generator, its four scoring functions and its six strategies, driven    *)
(* by main(), which builds one Search and reads the six strategy           *)
(* properties in a fixed order; of run_experiment of                       *)
(* src/search_algorithms/part_b.py, which builds one Search per iteration  *)
(* on random numbers and averages the number of nodes a strategy explored; *)
(* and of the resolution prover of src/propositional_logic/inference.py.   *)
(*                                                                         *)
(* Python lists are TLA+ sequences (index i of Python is index i+1 here).  *)
(* A Python tuple made by tuple(state) is the record [tuple |-> state], so *)
(* that a list and the tuple of the same values stay different values, as  *)
(* they are in Python.                                                     *)
(***************************************************************************)
EXTENDS Integers, Sequences, FiniteSets, TLC

\* Bounds of the model: the input arrays are all sequences of at most MaxLen
\* values drawn from 1..MaxVal (repeated values included).
MaxLen == 3
MaxVal == 3

\* run_experiment is entered with at most MaxIterations iterations.
MaxIterations == 2

\* inference is entered with a knowledge base of at most MaxClauses clauses of
\* at most MaxLiterals literals each.
MaxClauses == 2
MaxLiterals == 2

\* resolution is entered with two clauses of at most MaxResolved literals each.
MaxResolved == 3

VARIABLES
    initial_state,      \* Search.initial_state
    goal_state,         \* Search.goal_state
    state_length,       \* Search.state_length
    alg_index,          \* position of main's for loop in `algorithms`
    pc,                 \* "main", the name of the running strategy, or "error"
    queue,              \* breadth_first_search: the FIFO queue
    stack,              \* depth_first_search: the stack
    heap,               \* uniform_cost_search, greedy_search, a_star_search
    visited_states,     \* the visited log of the running path strategy
    current_state,      \* hill_climbing_search
    nodes_explored,     \* hill_climbing_search
    successor_calls,    \* number of calls of successors() in this invocation
    results,            \* what each strategy returned to its caller
    caller,             \* "main", "run_experiment" or "inference"
    num_iterations,     \* run_experiment: parameter
    list_length,        \* run_experiment: parameter
    iteration,          \* run_experiment: passes of the for loop completed
    total_nodes_explored,   \* run_experiment: the running total
    experiment_return,  \* run_experiment: the returned value
    knowledge_base,     \* inference: parameter
    query,              \* inference: parameter
    clauses,            \* inference: the list `clauses`
    new,                \* inference: the set `new`
    inference_return,   \* inference: how the call ended
    clause1,            \* resolution: parameter
    clause2,            \* resolution: parameter
    resolvent           \* resolution: the returned value

vars == <<initial_state, goal_state, state_length, alg_index, pc, queue, stack,
          heap, visited_states, current_state, nodes_explored,
          successor_calls, results, caller, num_iterations, list_length,
          iteration, total_nodes_explored, experiment_return, knowledge_base,
          query, clauses, new, inference_return, clause1, clause2,
          resolvent>>

\* the locals of run_experiment
experiment == <<num_iterations, list_length, iteration, total_nodes_explored,
                experiment_return>>

\* the locals of inference
inference_locals == <<knowledge_base, query, clauses, new, inference_return>>

\* the locals of a call of resolution from outside inference
resolution_locals == <<clause1, clause2, resolvent>>

\* the locals of inference and of resolution
prover == <<inference_locals, resolution_locals>>

engine == <<initial_state, goal_state, state_length>>

----------------------------------------------------------------------------
\* Python values

Range(s) == {s[i] : i \in 1..Len(s)}

Last(s) == s[Len(s)]

\* mutant of abs: the signed difference
abs_signed(x) == x

abs(x) == IF x < 0 THEN -x ELSE x

\* tuple(state): an immutable copy, a value of another type than the list
tuple(state) == [tuple |-> state]

\* s[lo:hi] of Python (0-based, hi exclusive, clamped to the length)
slice(s, lo, hi) ==
    LET h == IF hi > Len(s) THEN Len(s) ELSE hi
    IN  IF lo >= h THEN <<>> ELSE SubSeq(s, lo + 1, h)

\* list < list on lists of numbers: the first differing position decides, a
\* proper prefix is smaller
RECURSIVE list_lt(_, _)
list_lt(a, b) ==
    IF Len(a) = 0 THEN Len(b) > 0
    ELSE IF Len(b) = 0 THEN FALSE
    ELSE IF a[1] # b[1] THEN a[1] < b[1]
    ELSE list_lt(Tail(a), Tail(b))

\* list < list on paths (lists of tuples of numbers)
RECURSIVE path_lt(_, _)
path_lt(a, b) ==
    IF Len(a) = 0 THEN Len(b) > 0
    ELSE IF Len(b) = 0 THEN FALSE
    ELSE IF a[1] # b[1] THEN list_lt(a[1].tuple, b[1].tuple)
    ELSE path_lt(Tail(a), Tail(b))

\* (cost, state, path) < (cost, state, path)
entry3_lt(a, b) ==
    IF a[1] # b[1] THEN a[1] < b[1]
    ELSE IF a[2] # b[2] THEN list_lt(a[2], b[2])
    ELSE path_lt(a[3], b[3])

\* (f, cost, state, path) < (f, cost, state, path)
entry4_lt(a, b) ==
    IF a[1] # b[1] THEN a[1] < b[1]
    ELSE IF a[2] # b[2] THEN a[2] < b[2]
    ELSE IF a[3] # b[3] THEN list_lt(a[3], b[3])
    ELSE path_lt(a[4], b[4])

\* mutant of sorted: sorted(..., reverse=True)
RECURSIVE insort_descending(_, _)
insort_descending(x, s) ==
    IF Len(s) = 0 THEN <<x>>
    ELSE IF x >= Head(s) THEN <<x>> \o s
    ELSE <<Head(s)>> \o insort_descending(x, Tail(s))

RECURSIVE sorted_descending(_)
sorted_descending(s) ==
    IF Len(s) = 0 THEN <<>>
    ELSE insort_descending(Head(s), sorted_descending(Tail(s)))

\* sorted(list): ascending, by insertion
RECURSIVE insort(_, _)
insort(x, s) ==
    IF Len(s) = 0 THEN <<x>>
    ELSE IF x <= Head(s) THEN <<x>> \o s
    ELSE <<Head(s)>> \o insort(x, Tail(s))

RECURSIVE sorted(_)
sorted(s) == IF Len(s) = 0 THEN <<>> ELSE insort(Head(s), sorted(Tail(s)))

\* mutant of heap_least3: the entry pushed last is taken out
heap_last3(h) == Len(h)

\* heapq: the heap is kept as the sequence of its entries; heappop takes out
\* the least entry under the comparison of tuples (the first one, entries that
\* compare equal being equal values)
heap_least3(h) ==
    CHOOSE i \in 1..Len(h) :
        /\ \A j \in 1..Len(h) : ~entry3_lt(h[j], h[i])
        /\ \A j \in 1..(i - 1) : entry3_lt(h[i], h[j])

\* mutant of heap_least4: among the entries of least f the one pushed last
heap_least4_last(h) ==
    CHOOSE i \in 1..Len(h) :
        /\ \A j \in 1..Len(h) : h[i][1] <= h[j][1]
        /\ \A j \in (i + 1)..Len(h) : h[i][1] < h[j][1]

heap_least4(h) ==
    CHOOSE i \in 1..Len(h) :
        /\ \A j \in 1..Len(h) : ~entry4_lt(h[j], h[i])
        /\ \A j \in 1..(i - 1) : entry4_lt(h[i], h[j])

\* a sequence without its i-th entry
without(h, i) == SubSeq(h, 1, i - 1) \o SubSeq(h, i + 1, Len(h))

----------------------------------------------------------------------------
\* class Search: scoring functions and successor generator

\* mutant of inversion_heuristic: >= for >
inversion_heuristic_nonstrict(state) ==
    Cardinality({p \in (1..Len(state)) \X (1..Len(state)) :
                    p[1] < p[2] /\ state[p[1]] >= state[p[2]]})

inversion_heuristic(state) ==
    Cardinality({p \in (1..Len(state)) \X (1..Len(state)) :
                    p[1] < p[2] /\ state[p[1]] > state[p[2]]})

\* mutant of misplaced_tiles_heuristic: the condition of the sum left out
misplaced_tiles_heuristic_unconditional(state) ==
    Cardinality({i \in 1..state_length : TRUE})

misplaced_tiles_heuristic(state) ==
    Cardinality({i \in 1..state_length : state[i] # goal_state[i]})

RECURSIVE abs_diff_sum(_, _, _)
abs_diff_sum(state, goal, n) ==
    IF n = 0 THEN 0
    ELSE abs(state[n] - goal[n]) + abs_diff_sum(state, goal, n - 1)

absolute_difference_heuristic(state) ==
    abs_diff_sum(state, goal_state, state_length)

\* mutant of swapped: the slice i+1:i+2 written twice
swapped_dup(state, i) ==
    slice(state, 0, i) \o slice(state, i + 1, i + 2)
        \o slice(state, i + 1, i + 2) \o slice(state, i + 2, Len(state))

\* mutant of swapped: the two middle slices in the order of the input
swapped_none(state, i) ==
    slice(state, 0, i) \o slice(state, i, i + 1)
        \o slice(state, i + 1, i + 2) \o slice(state, i + 2, Len(state))

\* mutant of swapped: the last slice starts at i + 3
swapped_dropped(state, i) ==
    slice(state, 0, i) \o slice(state, i + 1, i + 2)
        \o slice(state, i, i + 1) \o slice(state, i + 3, Len(state))

\* the successor for Python index i (0-based)
swapped(state, i) ==
    slice(state, 0, i) \o slice(state, i + 1, i + 2)
        \o slice(state, i, i + 1) \o slice(state, i + 2, Len(state))

\* mutant of successors: range(self.state_length - 2)
successors_short(state) == [k \in 1..(state_length - 2) |-> swapped(state, k - 1)]

\* mutant of successors: the loop runs from the highest index down
successors_reversed(state) ==
    [k \in 1..(state_length - 1) |-> swapped(state, state_length - 1 - k)]

successors(state) == [k \in 1..(state_length - 1) |-> swapped(state, k - 1)]

misplaced_elements_cost(state) ==
    Cardinality({i \in 1..state_length : initial_state[i] # state[i]})

----------------------------------------------------------------------------
\* main(): one Search, the six strategies in this order

algorithms ==
    <<"breadth_first_search", "depth_first_search", "uniform_cost_search",
      "greedy_search", "a_star_search", "hill_climbing_search">>

RECURSIVE Arrays(_)
Arrays(n) ==
    IF n = 0 THEN {<<>>}
    ELSE {Append(s, v) : s \in Arrays(n - 1), v \in 1..MaxVal}

Inputs == UNION {Arrays(n) : n \in 0..MaxLen}

None == [tag |-> "None"]
Unset == [tag |-> "unset"]
Pair(a, b) == [tag |-> "pair", fst |-> a, snd |-> b]

\* Search.__init__, and main's locals before its loop
Init ==
    /\ initial_state \in Inputs
    /\ goal_state = sorted(initial_state)
    /\ state_length = Len(initial_state)
    /\ alg_index = 1
    /\ pc = "main"
    /\ queue = <<>>
    /\ stack = <<>>
    /\ heap = <<>>
    /\ visited_states = <<>>
    /\ current_state = <<>>
    /\ nodes_explored = 0
    /\ successor_calls = 0
    /\ results = [a \in Range(algorithms) |-> Unset]
    /\ caller = "main"
    /\ num_iterations = 0
    /\ list_length = 0
    /\ iteration = 0
    /\ total_nodes_explored = 0
    /\ experiment_return = Unset
    /\ knowledge_base = <<>>
    /\ query = <<>>
    /\ clauses = <<>>
    /\ new = {}
    /\ inference_return = "unset"
    /\ clause1 = Unset
    /\ clause2 = Unset
    /\ resolvent = Unset

\* a strategy returns v to its caller, which unpacks it into two names:
\* unpacking None raises, which ends main (and run_experiment)
Return(v) ==
    /\ results' = [results EXCEPT ![algorithms[alg_index]] = v]
    /\ alg_index' = IF caller = "main" THEN alg_index + 1 ELSE alg_index
    /\ pc' = IF v.tag = "None" THEN "error"
             ELSE IF caller = "main" THEN "main" ELSE "run_experiment_returned"

\* mutant of is_visited: `state in visited_states`, a list among tuples
is_visited_never(state) == FALSE

\* `tuple(state) in visited_states`
is_visited(state) == tuple(state) \in Range(visited_states)

\* mutant of is_goal: `tuple(state) == self.goal_state`, a tuple against a list
is_goal_never(state) == FALSE

\* `state == self.goal_state`
is_goal(state) == state = goal_state

Called(name) ==
    /\ pc \in {"main", "run_experiment_call"}
    /\ alg_index <= Len(algorithms)
    /\ algorithms[alg_index] = name

----------------------------------------------------------------------------
\* breadth_first_search

breadth_first_search_begin ==
    /\ Called("breadth_first_search")
    /\ queue' = << <<initial_state, <<tuple(initial_state)>> >> >>
    /\ visited_states' = <<>>
    /\ successor_calls' = 0
    /\ pc' = "breadth_first_search"
    /\ UNCHANGED <<caller, experiment, prover>>
    /\ UNCHANGED <<engine, alg_index, stack, heap, current_state,
                   nodes_explored, results>>

\* mutant of queue_entries: new_path = path
queue_entries_same_path(state, path) ==
    LET succ == successors(state)
    IN  [k \in 1..Len(succ) |-> <<succ[k], path>>]

\* mutant of queue_entries: successors found in the visited log are left out
queue_entries_unvisited(state, path) ==
    LET succ == successors(state)
        all == [k \in 1..Len(succ) |-> <<succ[k], Append(path, tuple(succ[k]))>>]
    IN  SelectSeq(all, LAMBDA e : ~is_visited(e[1]))

\* the entries put for the successors of a state, in the order of the loop
queue_entries(state, path) ==
    LET succ == successors(state)
    IN  [k \in 1..Len(succ) |-> <<succ[k], Append(path, tuple(succ[k]))>>]

\* mutant of queue_get_index: a LIFO queue
queue_get_index_lifo(q) == Len(q)

\* mutant of queue_get_index: the entry in the middle of the queue is taken
queue_get_index_middle(q) == (Len(q) + 1) \div 2

\* queue.get(): the position of the entry a FIFO queue hands out
queue_get_index(q) == 1

\* mutant of breadth_first_search_iter: the goal test comes before the state
\* is appended to the visited log
breadth_first_search_iter_goal_first ==
    /\ pc = "breadth_first_search"
    /\ UNCHANGED <<caller, experiment, prover>>
    /\ UNCHANGED <<engine, stack, heap, current_state, nodes_explored>>
    /\ IF Len(queue) = 0
       THEN /\ Return(None)
            /\ UNCHANGED <<queue, visited_states, successor_calls>>
       ELSE LET i == queue_get_index(queue)
                state == queue[i][1]
                path == queue[i][2]
            IN  IF is_visited(state)
                THEN /\ queue' = without(queue, i)
                     /\ UNCHANGED <<visited_states, successor_calls, results,
                                    alg_index, pc>>
                ELSE IF is_goal(state)
                     THEN /\ queue' = without(queue, i)
                          /\ Return(Pair(visited_states, path))
                          /\ UNCHANGED <<visited_states, successor_calls>>
                     ELSE /\ visited_states' = Append(visited_states, tuple(state))
                          /\ queue' = without(queue, i) \o queue_entries(state, path)
                          /\ successor_calls' = successor_calls + 1
                          /\ UNCHANGED <<results, alg_index, pc>>

breadth_first_search_iter ==
    /\ pc = "breadth_first_search"
    /\ UNCHANGED <<caller, experiment, prover>>
    /\ UNCHANGED <<engine, stack, heap, current_state, nodes_explored>>
    /\ IF Len(queue) = 0
       THEN /\ Return(None)
            /\ UNCHANGED <<queue, visited_states, successor_calls>>
       ELSE LET i == queue_get_index(queue)
                state == queue[i][1]
                path == queue[i][2]
            IN  IF is_visited(state)
                THEN /\ queue' = without(queue, i)
                     /\ UNCHANGED <<visited_states, successor_calls, results,
                                    alg_index, pc>>
                ELSE /\ visited_states' = Append(visited_states, tuple(state))
                     /\ IF is_goal(state)
                        THEN /\ queue' = without(queue, i)
                             /\ Return(Pair(visited_states', path))
                             /\ UNCHANGED successor_calls
                        ELSE /\ queue' = without(queue, i) \o queue_entries(state, path)
                             /\ successor_calls' = successor_calls + 1
                             /\ UNCHANGED <<results, alg_index, pc>>

----------------------------------------------------------------------------
\* depth_first_search

depth_first_search_begin ==
    /\ Called("depth_first_search")
    /\ stack' = << <<initial_state, <<tuple(initial_state)>> >> >>
    /\ visited_states' = <<>>
    /\ successor_calls' = 0
    /\ pc' = "depth_first_search"
    /\ UNCHANGED <<caller, experiment, prover>>
    /\ UNCHANGED <<engine, alg_index, queue, heap, current_state,
                   nodes_explored, results>>

\* mutant of stack_rest: stack[-1] read without pop()
stack_rest_kept(s) == s

\* stack.pop(): the stack without its last entry
stack_rest(s) == SubSeq(s, 1, Len(s) - 1)

\* mutant of depth_first_search_iter: the popped state is not looked up in
\* visited_states
depth_first_search_iter_unchecked ==
    /\ pc = "depth_first_search"
    /\ UNCHANGED <<caller, experiment, prover>>
    /\ UNCHANGED <<engine, queue, heap, current_state, nodes_explored>>
    /\ IF Len(stack) = 0
       THEN /\ Return(None)
            /\ UNCHANGED <<stack, visited_states, successor_calls>>
       ELSE LET state == Last(stack)[1]
                path == Last(stack)[2]
            IN  /\ visited_states' = Append(visited_states, tuple(state))
                /\ IF is_goal(state)
                   THEN /\ stack' = stack_rest(stack)
                        /\ Return(Pair(visited_states', path))
                        /\ UNCHANGED successor_calls
                   ELSE /\ stack' = stack_rest(stack)
                                       \o queue_entries(state, path)
                        /\ successor_calls' = successor_calls + 1
                        /\ UNCHANGED <<results, alg_index, pc>>

depth_first_search_iter ==
    /\ pc = "depth_first_search"
    /\ UNCHANGED <<caller, experiment, prover>>
    /\ UNCHANGED <<engine, queue, heap, current_state, nodes_explored>>
    /\ IF Len(stack) = 0
       THEN /\ Return(None)
            /\ UNCHANGED <<stack, visited_states, successor_calls>>
       ELSE LET state == Last(stack)[1]
                path == Last(stack)[2]
            IN  IF is_visited(state)
                THEN /\ stack' = stack_rest(stack)
                     /\ UNCHANGED <<visited_states, successor_calls, results,
                                    alg_index, pc>>
                ELSE /\ visited_states' = Append(visited_states, tuple(state))
                     /\ IF is_goal(state)
                        THEN /\ stack' = stack_rest(stack)
                             /\ Return(Pair(visited_states', path))
                             /\ UNCHANGED successor_calls
                        ELSE /\ stack' = stack_rest(stack)
                                            \o queue_entries(state, path)
                             /\ successor_calls' = successor_calls + 1
                             /\ UNCHANGED <<results, alg_index, pc>>

----------------------------------------------------------------------------
\* uniform_cost_search

uniform_cost_search_begin ==
    /\ Called("uniform_cost_search")
    /\ heap' = << <<0, initial_state, <<tuple(initial_state)>> >> >>
    /\ visited_states' = <<>>
    /\ successor_calls' = 0
    /\ pc' = "uniform_cost_search"
    /\ UNCHANGED <<caller, experiment, prover>>
    /\ UNCHANGED <<engine, alg_index, queue, stack, current_state,
                   nodes_explored, results>>

\* mutant of uniform_cost_entries: the cost is the number of steps of the path
uniform_cost_entries_accumulated(state, path) ==
    LET succ == successors(state)
    IN  [k \in 1..Len(succ) |->
            <<Len(path), succ[k], Append(path, tuple(succ[k]))>>]

\* the entries pushed for the successors of a state, in the order of the loop
uniform_cost_entries(state, path) ==
    LET succ == successors(state)
    IN  [k \in 1..Len(succ) |->
            <<misplaced_elements_cost(succ[k]), succ[k],
              Append(path, tuple(succ[k]))>>]

uniform_cost_search_iter ==
    /\ pc = "uniform_cost_search"
    /\ UNCHANGED <<caller, experiment, prover>>
    /\ UNCHANGED <<engine, queue, stack, current_state, nodes_explored>>
    /\ IF Len(heap) = 0
       THEN /\ Return(None)
            /\ UNCHANGED <<heap, visited_states, successor_calls>>
       ELSE LET i == heap_least3(heap)
                state == heap[i][2]
                path == heap[i][3]
            IN  IF is_visited(state)
                THEN /\ heap' = without(heap, i)
                     /\ UNCHANGED <<visited_states, successor_calls, results,
                                    alg_index, pc>>
                ELSE /\ visited_states' = Append(visited_states, tuple(state))
                     /\ IF is_goal(state)
                        THEN /\ heap' = without(heap, i)
                             /\ Return(Pair(visited_states', path))
                             /\ UNCHANGED successor_calls
                        ELSE /\ heap' = without(heap, i)
                                           \o uniform_cost_entries(state, path)
                             /\ successor_calls' = successor_calls + 1
                             /\ UNCHANGED <<results, alg_index, pc>>

----------------------------------------------------------------------------
\* greedy_search

greedy_search_begin ==
    /\ Called("greedy_search")
    /\ heap' = << <<absolute_difference_heuristic(initial_state),
                    initial_state, <<tuple(initial_state)>> >> >>
    /\ visited_states' = <<>>
    /\ successor_calls' = 0
    /\ pc' = "greedy_search"
    /\ UNCHANGED <<caller, experiment, prover>>
    /\ UNCHANGED <<engine, alg_index, queue, stack, current_state,
                   nodes_explored, results>>

\* mutant of greedy_entries: new_path = [tuple(successor)] + path
greedy_entries_prepended(state, path) ==
    LET succ == successors(state)
    IN  [k \in 1..Len(succ) |->
            <<absolute_difference_heuristic(succ[k]), succ[k],
              <<tuple(succ[k])>> \o path>>]

greedy_entries(state, path) ==
    LET succ == successors(state)
    IN  [k \in 1..Len(succ) |->
            <<absolute_difference_heuristic(succ[k]), succ[k],
              Append(path, tuple(succ[k]))>>]

greedy_search_iter ==
    /\ pc = "greedy_search"
    /\ UNCHANGED <<caller, experiment, prover>>
    /\ UNCHANGED <<engine, queue, stack, current_state, nodes_explored>>
    /\ IF Len(heap) = 0
       THEN /\ Return(None)
            /\ UNCHANGED <<heap, visited_states, successor_calls>>
       ELSE LET i == heap_least3(heap)
                state == heap[i][2]
                path == heap[i][3]
            IN  IF is_visited(state)
                THEN /\ heap' = without(heap, i)
                     /\ UNCHANGED <<visited_states, successor_calls, results,
                                    alg_index, pc>>
                ELSE /\ visited_states' = Append(visited_states, tuple(state))
                     /\ IF is_goal(state)
                        THEN /\ heap' = without(heap, i)
                             /\ Return(Pair(visited_states', path))
                             /\ UNCHANGED successor_calls
                        ELSE /\ heap' = without(heap, i)
                                           \o greedy_entries(state, path)
                             /\ successor_calls' = successor_calls + 1
                             /\ UNCHANGED <<results, alg_index, pc>>

----------------------------------------------------------------------------
\* a_star_search

a_star_search_begin ==
    /\ Called("a_star_search")
    /\ heap' = << <<absolute_difference_heuristic(initial_state), 0,
                    initial_state, <<tuple(initial_state)>> >> >>
    /\ visited_states' = <<>>
    /\ successor_calls' = 0
    /\ pc' = "a_star_search"
    /\ UNCHANGED <<caller, experiment, prover>>
    /\ UNCHANGED <<engine, alg_index, queue, stack, current_state,
                   nodes_explored, results>>

\* mutant of a_star_entries: new_path = path + [successor], a list among tuples
a_star_entries_lists(state, path) ==
    LET succ == successors(state)
    IN  [k \in 1..Len(succ) |->
            LET new_cost == misplaced_elements_cost(succ[k])
            IN  <<absolute_difference_heuristic(succ[k]) + new_cost, new_cost,
                  succ[k], Append(path, [list |-> succ[k]])>>]

a_star_entries(state, path) ==
    LET succ == successors(state)
    IN  [k \in 1..Len(succ) |->
            LET new_cost == misplaced_elements_cost(succ[k])
            IN  <<absolute_difference_heuristic(succ[k]) + new_cost, new_cost,
                  succ[k], Append(path, tuple(succ[k]))>>]

a_star_search_iter ==
    /\ pc = "a_star_search"
    /\ UNCHANGED <<caller, experiment, prover>>
    /\ UNCHANGED <<engine, queue, stack, current_state, nodes_explored>>
    /\ IF Len(heap) = 0
       THEN /\ Return(None)
            /\ UNCHANGED <<heap, visited_states, successor_calls>>
       ELSE LET i == heap_least4(heap)
                state == heap[i][3]
                path == heap[i][4]
            IN  IF is_visited(state)
                THEN /\ heap' = without(heap, i)
                     /\ UNCHANGED <<visited_states, successor_calls, results,
                                    alg_index, pc>>
                ELSE /\ visited_states' = Append(visited_states, tuple(state))
                     /\ IF is_goal(state)
                        THEN /\ heap' = without(heap, i)
                             /\ Return(Pair(visited_states', path))
                             /\ UNCHANGED successor_calls
                        ELSE /\ heap' = without(heap, i)
                                           \o a_star_entries(state, path)
                             /\ successor_calls' = successor_calls + 1
                             /\ UNCHANGED <<results, alg_index, pc>>

----------------------------------------------------------------------------
\* hill_climbing_search

\* mutant of hill_climbing_search_begin: the engine's own list is sorted in
\* place before the climb starts
hill_climbing_search_begin_inplace ==
    /\ Called("hill_climbing_search")
    /\ initial_state' = goal_state
    /\ current_state' = goal_state
    /\ nodes_explored' = 0
    /\ successor_calls' = 0
    /\ pc' = "hill_climbing_search"
    /\ UNCHANGED <<caller, experiment, prover>>
    /\ UNCHANGED <<goal_state, state_length, alg_index, queue, stack, heap,
                   visited_states, results>>

\* mutant of hill_climbing_search_begin: nodes_explored = 1, the initial state
\* counted
hill_climbing_search_begin_counted ==
    /\ Called("hill_climbing_search")
    /\ current_state' = initial_state
    /\ nodes_explored' = 1
    /\ successor_calls' = 0
    /\ pc' = "hill_climbing_search"
    /\ UNCHANGED <<caller, experiment, prover>>
    /\ UNCHANGED <<engine, alg_index, queue, stack, heap, visited_states,
                   results>>

hill_climbing_search_begin ==
    /\ Called("hill_climbing_search")
    /\ current_state' = initial_state
    /\ nodes_explored' = 0
    /\ successor_calls' = 0
    /\ pc' = "hill_climbing_search"
    /\ UNCHANGED <<caller, experiment, prover>>
    /\ UNCHANGED <<engine, alg_index, queue, stack, heap, visited_states,
                   results>>

\* mutant of best_index: max(neighbors, key=inversion_heuristic)
best_index_worst(neighbors) ==
    CHOOSE i \in 1..Len(neighbors) :
        \A j \in 1..Len(neighbors) :
            inversion_heuristic(neighbors[i]) >= inversion_heuristic(neighbors[j])

\* mutant of best_index: the last neighbour of least key
best_index_last(neighbors) ==
    CHOOSE i \in 1..Len(neighbors) :
        /\ \A j \in 1..Len(neighbors) :
              inversion_heuristic(neighbors[i]) <= inversion_heuristic(neighbors[j])
        /\ \A j \in (i + 1)..Len(neighbors) :
              inversion_heuristic(neighbors[i]) < inversion_heuristic(neighbors[j])

\* min(neighbors, key=inversion_heuristic): the first neighbour of least key
best_index(neighbors) ==
    CHOOSE i \in 1..Len(neighbors) :
        /\ \A j \in 1..Len(neighbors) :
              inversion_heuristic(neighbors[i]) <= inversion_heuristic(neighbors[j])
        /\ \A j \in 1..(i - 1) :
              inversion_heuristic(neighbors[i]) < inversion_heuristic(neighbors[j])

\* one pass of the while True loop; min() of an empty list raises
hill_climbing_search_iter ==
    /\ pc = "hill_climbing_search"
    /\ UNCHANGED <<caller, experiment, prover>>
    /\ UNCHANGED <<engine, queue, stack, heap, visited_states>>
    /\ LET h == inversion_heuristic(current_state)
           neighbors == successors(current_state)
       IN  IF h = 0
           THEN /\ Return(Pair(current_state, nodes_explored))
                /\ UNCHANGED <<current_state, nodes_explored, successor_calls>>
           ELSE /\ successor_calls' = successor_calls + 1
                /\ nodes_explored' = nodes_explored + Len(neighbors)
                /\ IF Len(neighbors) = 0
                   THEN /\ pc' = "error"
                        /\ UNCHANGED <<current_state, results, alg_index>>
                   ELSE LET best_neighbor == neighbors[best_index(neighbors)]
                        IN  IF inversion_heuristic(best_neighbor) >= h
                            THEN /\ Return(Pair(current_state, nodes_explored'))
                                 /\ UNCHANGED current_state
                            ELSE /\ current_state' = best_neighbor
                                 /\ UNCHANGED <<results, alg_index, pc>>

----------------------------------------------------------------------------
Next ==
    \/ breadth_first_search_begin
    \/ breadth_first_search_iter
    \/ depth_first_search_begin
    \/ depth_first_search_iter
    \/ uniform_cost_search_begin
    \/ uniform_cost_search_iter
    \/ greedy_search_begin
    \/ greedy_search_iter
    \/ a_star_search_begin
    \/ a_star_search_iter
    \/ hill_climbing_search_begin
    \/ hill_climbing_search_iter

Spec == Init /\ [][Next]_vars

----------------------------------------------------------------------------
\* run_experiment of part_b.py

\* the true quotient of two integers, kept as the pair of the two
Quotient(a, b) == [tag |-> "quotient", num |-> a, den |-> b]

\* run_experiment(num_iterations, list_length, algorithm) is entered; the
\* parameter `algorithm` is algorithms[alg_index]
ExperimentInit ==
    /\ caller = "run_experiment"
    /\ num_iterations \in 1..MaxIterations
    /\ list_length \in 1..MaxLen
    /\ alg_index \in 1..Len(algorithms)
    /\ iteration = 0
    /\ total_nodes_explored = 0
    /\ experiment_return = Unset
    /\ pc = "run_experiment"
    /\ initial_state = <<>>
    /\ goal_state = <<>>
    /\ state_length = 0
    /\ queue = <<>>
    /\ stack = <<>>
    /\ heap = <<>>
    /\ visited_states = <<>>
    /\ current_state = <<>>
    /\ nodes_explored = 0
    /\ successor_calls = 0
    /\ results = [a \in Range(algorithms) |-> Unset]
    /\ knowledge_base = <<>>
    /\ query = <<>>
    /\ clauses = <<>>
    /\ new = {}
    /\ inference_return = "unset"
    /\ clause1 = Unset
    /\ clause2 = Unset
    /\ resolvent = Unset

\* head of the for loop: the random numbers are drawn and a Search is built
\* on them; the strategy is read next
run_experiment_search ==
    /\ pc = "run_experiment"
    /\ iteration < num_iterations
    /\ \E random_numbers \in Arrays(list_length) :
          /\ initial_state' = random_numbers
          /\ goal_state' = sorted(random_numbers)
          /\ state_length' = Len(random_numbers)
    /\ pc' = "run_experiment_call"
    /\ UNCHANGED <<alg_index, queue, stack, heap, visited_states,
                   current_state, nodes_explored, successor_calls, results>>
    /\ UNCHANGED <<caller, experiment, prover>>

\* the strategy has returned a pair: the length of its first component is
\* taken in either branch of the if, and added to the total
run_experiment_count ==
    /\ pc = "run_experiment_returned"
    /\ LET algorithm == algorithms[alg_index]
           returned == results[algorithm]
           counted == IF algorithm = "hill_climbing_search"
                      THEN Len(returned.fst)
                      ELSE Len(returned.fst)
       IN  total_nodes_explored' = total_nodes_explored + counted
    /\ iteration' = iteration + 1
    /\ pc' = "run_experiment"
    /\ UNCHANGED <<engine, alg_index, queue, stack, heap, visited_states,
                   current_state, nodes_explored, successor_calls, results>>
    /\ UNCHANGED <<caller, num_iterations, list_length, experiment_return,
                   prover>>

\* the for loop is over: return total_nodes_explored / num_iterations
run_experiment_return ==
    /\ pc = "run_experiment"
    /\ iteration = num_iterations
    /\ experiment_return' = Quotient(total_nodes_explored, num_iterations)
    /\ pc' = "done"
    /\ UNCHANGED <<engine, alg_index, queue, stack, heap, visited_states,
                   current_state, nodes_explored, successor_calls, results>>
    /\ UNCHANGED <<caller, num_iterations, list_length, iteration,
                   total_nodes_explored, prover>>

ExperimentNext ==
    \/ run_experiment_search
    \/ run_experiment_count
    \/ run_experiment_return
    \/ breadth_first_search_begin
    \/ breadth_first_search_iter
    \/ depth_first_search_begin
    \/ depth_first_search_iter
    \/ uniform_cost_search_begin
    \/ uniform_cost_search_iter
    \/ greedy_search_begin
    \/ greedy_search_iter
    \/ a_star_search_begin
    \/ a_star_search_iter
    \/ hill_climbing_search_begin
    \/ hill_climbing_search_iter

ExperimentSpec == ExperimentInit /\ [][ExperimentNext]_vars

----------------------------------------------------------------------------
\* inference and resolution of inference.py, Literal and Clause of
\* literal_and_clause.py

\* a Literal is compared and hashed by (variable, positive)
Literal(variable, positive) == [variable |-> variable, positive |-> positive]

\* A Clause has no __eq__ and no __hash__: it is compared and hashed by
\* identity, which is the field id here. Its list of literals is kept as the
\* set of them: inference and resolution read the list through set() and
\* through its emptiness only.
Clause(id, literals) == [tag |-> "Clause", id |-> id, literals |-> literals]

\* the set `new` itself, as an entry of the list `clauses`
TheSetNew == [tag |-> "set"]

PropositionalVariables == {"A", "B", "C"}

Literals == {Literal(v, p) : v \in PropositionalVariables, p \in BOOLEAN}

\* the literal sets of the input clauses: at most MaxLiterals literals, no
\* variable twice
LiteralSets ==
    {ls \in SUBSET Literals :
        /\ Cardinality(ls) \in 1..MaxLiterals
        /\ \A l1, l2 \in ls : l1.variable = l2.variable => l1 = l2}

RECURSIVE ClauseLists(_)
ClauseLists(n) ==
    IF n = 0 THEN {<<>>}
    ELSE {Append(cs, Clause(n, ls)) : cs \in ClauseLists(n - 1), ls \in LiteralSets}

\* the knowledge bases: lists of at most n Clause objects
KnowledgeBases(n) == UNION {ClauseLists(k) : k \in 0..n}

\* the one literal per variable that the loop over the set new_literals
\* meets first; the order of the loop is the order of the set, which decides
\* only when a variable occurs twice
first_of_variable(new_literals, v) ==
    CHOOSE lit \in new_literals : lit.variable = v

\* the pairs (lit1, lit2) for which the two nested loops set `resolved`
complementary(literals1, literals2) ==
    {p \in literals1 \X literals2 :
        p[1].variable = p[2].variable /\ p[1].positive # p[2].positive}

\* mutant of discarded: new_literals.discard(lit1) only
discarded_first(literals1, literals2) ==
    (literals1 \cup literals2)
        \ {p[1] : p \in complementary(literals1, literals2)}

\* new_literals after the two nested loops: the union without lit1 and lit2
\* of every complementary pair
discarded(literals1, literals2) ==
    (literals1 \cup literals2)
        \ ({p[1] : p \in complementary(literals1, literals2)}
              \cup {p[2] : p \in complementary(literals1, literals2)})

\* resolution(clause1, clause2) for clauses that hold no variable twice: None,
\* or the literals of the returned Clause
resolution(c1, c2) ==
    LET literals1 == c1.literals
        literals2 == c2.literals
        new_literals == discarded(literals1, literals2)
        final_literals ==
            {first_of_variable(new_literals, v) :
                v \in {lit.variable : lit \in new_literals}}
    IN  IF complementary(literals1, literals2) = {} THEN None
        ELSE IF new_literals = {} THEN [tag |-> "literals", literals |-> {}]
        ELSE [tag |-> "literals", literals |-> final_literals]

\* inference(knowledge_base, query) is entered
InferenceInit ==
    /\ caller = "inference"
    /\ knowledge_base \in KnowledgeBases(MaxClauses)
    /\ query \in {Clause(0, {lit}) : lit \in Literals}
    /\ clauses = <<>>
    /\ new = {}
    /\ inference_return = "unset"
    /\ clause1 = Unset
    /\ clause2 = Unset
    /\ resolvent = Unset
    /\ pc = "inference"
    /\ initial_state = <<>>
    /\ goal_state = <<>>
    /\ state_length = 0
    /\ alg_index = 1
    /\ queue = <<>>
    /\ stack = <<>>
    /\ heap = <<>>
    /\ visited_states = <<>>
    /\ current_state = <<>>
    /\ nodes_explored = 0
    /\ successor_calls = 0
    /\ results = [a \in Range(algorithms) |-> Unset]
    /\ num_iterations = 0
    /\ list_length = 0
    /\ iteration = 0
    /\ total_nodes_explored = 0
    /\ experiment_return = Unset

search == <<engine, alg_index, queue, stack, heap, visited_states,
            current_state, nodes_explored, successor_calls, results>>

\* the query is negated and put after the knowledge base; new = set(clauses)
inference_begin ==
    /\ pc = "inference"
    /\ LET negated_query ==
               {Literal(lit.variable, ~lit.positive) : lit \in query.literals}
       IN  clauses' = Append(knowledge_base,
                             Clause(Len(knowledge_base) + 1, negated_query))
    /\ new' = Range(clauses')
    /\ pc' = "inference_loop"
    /\ UNCHANGED <<caller, experiment, search, knowledge_base, query,
                   inference_return, resolution_locals>>

\* the greatest identity among the Clause objects of a set
max_id(cs) == CHOOSE m \in {c.id : c \in cs} : \A c \in cs : c.id <= m

\* one pass of the while True loop. new_pairs is built before the for loop, so
\* the resolvents of a pass are paired in the next pass only. Every resolvent
\* is a Clause object of its own. When a resolvent is empty the call returns
\* True and its locals are gone. Otherwise set(clauses) is taken: it raises
\* TypeError when `clauses` holds the set appended by the pass before.
inference_pass ==
    /\ pc = "inference_loop"
    /\ LET new_pairs == {p \in new \X new : p[1] # p[2]}
           resolved == {p \in new_pairs : resolution(p[1], p[2]) # None}
           top == max_id(new)
           resolvents ==
               {Clause(top * p[1].id + p[2].id, resolution(p[1], p[2]).literals) :
                   p \in resolved}
       IN  IF \E c \in resolvents : c.literals = {}
           THEN /\ inference_return' = "True"
                /\ pc' = "done"
                /\ UNCHANGED <<clauses, new>>
           ELSE /\ new' = new \cup resolvents
                /\ IF \E k \in 1..Len(clauses) : clauses[k] = TheSetNew
                   THEN /\ inference_return' = "TypeError"
                        /\ pc' = "done"
                        /\ UNCHANGED clauses
                   ELSE IF new' \ Range(clauses) = {}
                        THEN /\ inference_return' = "False"
                             /\ pc' = "done"
                             /\ UNCHANGED clauses
                        ELSE /\ clauses' = Append(clauses, TheSetNew)
                             /\ UNCHANGED <<inference_return, pc>>
    /\ UNCHANGED <<caller, experiment, search, knowledge_base, query,
                   resolution_locals>>

InferenceNext ==
    \/ inference_begin
    \/ inference_pass

InferenceSpec == InferenceInit /\ [][InferenceNext]_vars

----------------------------------------------------------------------------
\* resolution of inference.py, called on two clauses of any kind

\* the literal sets of the clauses resolution is called on: at most
\* MaxResolved literals, a variable in both polarities included
ResolvedLiteralSets(n) == {ls \in SUBSET Literals : Cardinality(ls) <= n}

\* the lists final_literals that the loop over the set new_literals can build:
\* the first literal of each variable in the order of the set, which is the
\* order of the hashes of (variable, positive) and differs from run to run
final_literals_of(new_literals) ==
    {fl \in SUBSET new_literals :
        \A lit \in new_literals :
            Cardinality({l \in fl : l.variable = lit.variable}) = 1}

\* resolution(clause1, clause2) is entered
ResolutionInit ==
    /\ caller = "resolution"
    /\ pc = "resolution"
    /\ clause1 \in {Clause(1, ls) : ls \in ResolvedLiteralSets(MaxResolved)}
    /\ clause2 \in {Clause(2, ls) : ls \in ResolvedLiteralSets(MaxResolved)}
    /\ resolvent = Unset
    /\ knowledge_base = <<>>
    /\ query = <<>>
    /\ clauses = <<>>
    /\ new = {}
    /\ inference_return = "unset"
    /\ initial_state = <<>>
    /\ goal_state = <<>>
    /\ state_length = 0
    /\ alg_index = 1
    /\ queue = <<>>
    /\ stack = <<>>
    /\ heap = <<>>
    /\ visited_states = <<>>
    /\ current_state = <<>>
    /\ nodes_explored = 0
    /\ successor_calls = 0
    /\ results = [a \in Range(algorithms) |-> Unset]
    /\ num_iterations = 0
    /\ list_length = 0
    /\ iteration = 0
    /\ total_nodes_explored = 0
    /\ experiment_return = Unset

\* the whole of resolution: None, Clause([]) or Clause(final_literals)
resolution_call ==
    /\ pc = "resolution"
    /\ LET literals1 == clause1.literals
           literals2 == clause2.literals
           new_literals == discarded(literals1, literals2)
       IN  IF complementary(literals1, literals2) = {}
           THEN resolvent' = None
           ELSE IF new_literals = {}
                THEN resolvent' = [tag |-> "literals", literals |-> {}]
                ELSE \E final_literals \in final_literals_of(new_literals) :
                        resolvent' = [tag |-> "literals", literals |-> final_literals]
    /\ pc' = "done"
    /\ UNCHANGED <<caller, experiment, search, inference_locals, clause1,
                   clause2>>

ResolutionNext ==
    \/ resolution_call

ResolutionSpec == ResolutionInit /\ [][ResolutionNext]_vars

----------------------------------------------------------------------------
\* Vocabulary of the properties

PathStrategies ==
    {"breadth_first_search", "depth_first_search", "uniform_cost_search",
     "greedy_search", "a_star_search"}

HeapStrategies == {"uniform_cost_search", "greedy_search", "a_star_search"}

Returned(a) == results[a].tag = "pair"

MainDone == pc = "main" /\ alg_index > Len(algorithms)

IsAscending(s) == \A i \in 1..(Len(s) - 1) : s[i] <= s[i + 1]

Count(s, v) == Cardinality({i \in 1..Len(s) : s[i] = v})

IsRearrangement(s, t) ==
    /\ Len(s) = Len(t)
    /\ \A v \in Range(s) \cup Range(t) : Count(s, v) = Count(t, v)

IsSortOf(s, t) == IsAscending(s) /\ IsRearrangement(s, t)

NoDuplicates(s) == \A i, j \in 1..Len(s) : s[i] = s[j] => i = j

Inversions(s) ==
    Cardinality({p \in (1..Len(s)) \X (1..Len(s)) : p[1] < p[2] /\ s[p[1]] > s[p[2]]})

AdjacentSwap(s, i) == [s EXCEPT ![i] = s[i + 1], ![i + 1] = s[i]]

Neighbours(S) == UNION {{AdjacentSwap(s, i) : i \in 1..(Len(s) - 1)} : s \in S}

\* the least number of adjacent swaps that make s ascending, by layers
RECURSIVE SwapDistance(_, _, _)
SwapDistance(layer, seen, d) ==
    IF \E s \in layer : IsAscending(s) THEN d
    ELSE IF layer = {} THEN -1
    ELSE LET next == Neighbours(layer) \ seen
         IN  SwapDistance(next, seen \cup next, d + 1)

MinSwaps(s) == SwapDistance({s}, {s}, 0)

\* the state of the candidate the running path strategy pops next, if any
Candidate ==
    CASE pc = "breadth_first_search" /\ Len(queue) > 0 ->
            <<queue[queue_get_index(queue)][1]>>
      [] pc = "depth_first_search" /\ Len(stack) > 0 -> <<Last(stack)[1]>>
      [] pc \in {"uniform_cost_search", "greedy_search"} /\ Len(heap) > 0 ->
            <<heap[heap_least3(heap)][2]>>
      [] pc = "a_star_search" /\ Len(heap) > 0 -> <<heap[heap_least4(heap)][3]>>
      [] OTHER -> <<>>

\* the states successors() is looked at for: the initial state (every input
\* array is the initial state of some run), the candidate a path strategy pops
\* next and hill climbing's current state
Subjects ==
    {initial_state} \cup Range(Candidate)
        \cup (IF pc = "hill_climbing_search" THEN {current_state} ELSE {})

RECURSIVE Factorial(_)
Factorial(n) == IF n <= 1 THEN 1 ELSE n * Factorial(n - 1)

\* the frontier of the running path strategy
Frontier ==
    CASE pc = "breadth_first_search" -> queue
      [] pc = "depth_first_search" -> stack
      [] pc \in HeapStrategies -> heap
      [] OTHER -> <<>>

\* what is left to do in the running strategy: a visit of a new state takes
\* one of the at most N! states and adds at most N-2 entries to the frontier,
\* a discard takes one entry; hill climbing lowers the number of inversions
StrategyMeasure ==
    IF pc \in PathStrategies
    THEN (Factorial(state_length) - Len(visited_states)) * state_length
            + Len(Frontier) + 1
    ELSE IF pc = "hill_climbing_search" THEN Inversions(current_state) + 1
    ELSE 0

StrategyBound == Factorial(state_length) * state_length + state_length * state_length + 4

\* what is left to do in main
Variant ==
    IF pc = "error" THEN 0
    ELSE (Len(algorithms) + 1 - alg_index) * StrategyBound
            + (IF pc = "main" THEN StrategyBound - 1 ELSE StrategyMeasure)

\* number of transitions of a path
Transitions(path) == Len(path) - 1

----------------------------------------------------------------------------
\* C1: whenever one of the five path strategies has returned a (visited log,
\* path) pair, the last state of the path is the ascending sort of the
\* initial sequence.
C1_PathEndsSorted ==
    \A a \in PathStrategies :
        Returned(a) => IsSortOf(Last(results[a].snd).tuple, initial_state)

\* all five have returned on an input that was not sorted
C1_Witness ==
    /\ \A a \in PathStrategies : Returned(a)
    /\ ~IsAscending(initial_state)

\* C2: each of the six strategies terminates. Every step of the program makes
\* a natural number strictly smaller, and a step that changes the state is
\* possible until main's loop is over or main has failed: so every strategy
\* returns after finitely many passes of its loop, although its frontier may
\* hold states it has already visited.
C2_Terminates ==
    /\ [](Variant >= 0)
    /\ [][Variant' < Variant]_vars
    /\ [](MainDone \/ pc = "error" \/ ENABLED <<Next>>_vars)

\* the six have returned on an unsorted input of three values, the depth-first
\* log holding every rearrangement it met
C2_Witness ==
    /\ MainDone
    /\ state_length >= 3
    /\ ~IsAscending(initial_state)
    /\ Returned("hill_climbing_search")
    /\ Len(results["depth_first_search"].fst) >= 3

\* C3: no path strategy returns the not-found value, and while one runs its
\* frontier is not empty at the head of the loop.
C3_NeverNotFound ==
    /\ \A a \in PathStrategies : results[a].tag # "None"
    /\ pc = "breadth_first_search" => Len(queue) > 0
    /\ pc = "depth_first_search" => Len(stack) > 0
    /\ pc \in HeapStrategies => Len(heap) > 0

\* a heap strategy whose frontier is down to one entry, on an unsorted input
C3_Witness ==
    /\ pc \in HeapStrategies
    /\ Len(heap) = 1
    /\ Len(visited_states) >= 2

\* C4: the path of breadth_first_search has no more transitions than the path
\* of any other path strategy from the same initial sequence.
C4_BfsNotLonger ==
    \A a \in PathStrategies :
        (Returned("breadth_first_search") /\ Returned(a)) =>
            Transitions(results["breadth_first_search"].snd)
                <= Transitions(results[a].snd)

\* depth-first returned a strictly longer path than breadth-first
C4_Witness ==
    /\ Returned("breadth_first_search")
    /\ Returned("depth_first_search")
    /\ Transitions(results["breadth_first_search"].snd)
          < Transitions(results["depth_first_search"].snd)

\* C5: the path of breadth_first_search has as many transitions as the least
\* number of adjacent swaps that sort the initial sequence, which is its
\* number of inversions.
C5_BfsShortest ==
    Returned("breadth_first_search") =>
        /\ Transitions(results["breadth_first_search"].snd) = MinSwaps(initial_state)
        /\ Transitions(results["breadth_first_search"].snd) = Inversions(initial_state)

\* [3,1,2]: a path of three states
C5_Witness ==
    /\ Returned("breadth_first_search")
    /\ initial_state = <<3, 1, 2>>
    /\ Len(results["breadth_first_search"].snd) = 3

\* C6: the visited log never holds a state identity twice, neither while a
\* path strategy runs nor in what it returns, and a popped candidate that is
\* already in the log is discarded: the log and the number of expansions stay
\* as they are and the frontier loses that one entry.
C6_VisitedLogHasNoDuplicates ==
    [][/\ NoDuplicates(visited_states')
       /\ \A a \in PathStrategies :
             results'[a].tag = "pair" => NoDuplicates(results'[a].fst)
       /\ (Len(Candidate) > 0 /\ tuple(Candidate[1]) \in Range(visited_states)) =>
             /\ visited_states' = visited_states
             /\ successor_calls' = successor_calls
             /\ pc' = pc
             /\ Len(Frontier') = Len(Frontier) - 1]_vars

\* the next candidate is already in a log of at least two states
C6_Witness ==
    /\ Len(Candidate) > 0
    /\ tuple(Candidate[1]) \in Range(visited_states)
    /\ Len(visited_states) >= 2

\* C7: successors(state) lists, for a state of length N, the N-1 states got by
\* swapping positions i and i+1 (all other positions as in the input), in
\* ascending order of i, and nothing when N <= 1.
C7_SuccessorsAreAdjacentSwaps ==
    \A s \in Subjects :
        LET succ == successors(s)
        IN  /\ Len(succ) = (IF Len(s) <= 1 THEN 0 ELSE Len(s) - 1)
            /\ \A i \in 1..Len(succ) : succ[i] = AdjacentSwap(s, i)

\* depth-first search has expanded two states of three values
C7_Witness ==
    /\ pc = "depth_first_search"
    /\ successor_calls >= 2
    /\ state_length >= 3

\* C8 as stated: no successor of a state equals that state (here for the
\* states a path strategy has expanded: those in its log that are not the goal).
C8_NoSuccessorEqualsState ==
    \A s \in Subjects :
        (tuple(s) \in Range(visited_states) /\ s # goal_state) =>
            \A i \in 1..Len(successors(s)) : successors(s)[i] # s

\* C8 as amended: the i-th successor of a state equals that state exactly when
\* the values at positions i and i+1 are equal.
C8_SuccessorEqualsStateIffEqualPair ==
    \A s \in Subjects :
        \A i \in 1..Len(successors(s)) :
            (successors(s)[i] = s) <=> (s[i] = s[i + 1])

\* breadth-first search holds an entry whose state is the state it was
\* generated from
C8_Witness ==
    /\ pc = "breadth_first_search"
    /\ \E k \in 1..Len(queue) :
          LET path == queue[k][2]
          IN  Len(path) >= 2 /\ path[Len(path)] = path[Len(path) - 1]

\* C9: on an initial sequence of length 0 or 1 the first pass of every
\* strategy's loop returns: the five path strategies a log and a path that
\* each hold the initial state alone, hill climbing the initial state and the
\* count 0; no successor is generated.
C9_TrivialInput ==
    [][(state_length <= 1 /\ pc \in Range(algorithms)) =>
          /\ pc' = "main"
          /\ successor_calls' = 0
          /\ results'[pc] =
                IF pc = "hill_climbing_search"
                THEN Pair(initial_state, 0)
                ELSE Pair(<<tuple(initial_state)>>, <<tuple(initial_state)>>)]_vars

\* the six have returned on an input of one value
C9_Witness ==
    /\ MainDone
    /\ state_length = 1
    /\ \A k \in 1..Len(algorithms) : Returned(algorithms[k])

\* C10: on an initial sequence that is sorted ascending the first pass of
\* hill climbing's loop returns the unchanged sequence and the count 0,
\* without a call of successors.
C10_HillClimbingOnSorted ==
    [][(pc = "hill_climbing_search" /\ IsAscending(initial_state)) =>
          /\ pc' = "main"
          /\ successor_calls' = 0
          /\ results'["hill_climbing_search"] = Pair(initial_state, 0)]_vars

\* hill climbing has returned on a sorted input of three values, two of them
\* equal
C10_Witness ==
    /\ Returned("hill_climbing_search")
    /\ IsAscending(initial_state)
    /\ state_length = 3
    /\ \E i \in 1..2 : initial_state[i] = initial_state[i + 1]
    /\ results["hill_climbing_search"].snd = 0

\* C11: hill_climbing_search returns the ascending sort of the initial
\* sequence. From a current state of k >= 1 inversions a pass of its loop
\* moves to a state of exactly k-1 inversions and does not return; the number
\* of moves made so far is the number of inversions removed so far, so the
\* search has made exactly as many moves as the initial sequence has
\* inversions when it returns, and it returns a sorted state only.
C11_HillClimbingSorts ==
    /\ [](Returned("hill_climbing_search") =>
            /\ IsSortOf(results["hill_climbing_search"].fst, initial_state)
            /\ results["hill_climbing_search"].snd
                 = Inversions(initial_state) * (state_length - 1))
    /\ [](pc = "hill_climbing_search" =>
            successor_calls = Inversions(initial_state) - Inversions(current_state))
    /\ [][(pc = "hill_climbing_search" /\ Inversions(current_state) >= 1) =>
            /\ pc' = "hill_climbing_search"
            /\ Inversions(current_state') = Inversions(current_state) - 1]_vars

\* hill climbing has returned on an input of three inversions
C11_Witness ==
    /\ Returned("hill_climbing_search")
    /\ Inversions(initial_state) >= 3
    /\ successor_calls = 3

\* C14: no step of a strategy changes the engine's initial sequence, goal
\* sequence or state length, and throughout the six invocations on one engine
\* the goal is the ascending sort of the initial sequence and the state length
\* is its length.
C14_EngineIsReadOnly ==
    /\ [][/\ initial_state' = initial_state
          /\ goal_state' = goal_state
          /\ state_length' = state_length]_vars
    /\ [](/\ IsSortOf(goal_state, initial_state)
          /\ state_length = Len(initial_state))

\* the six strategies have run on one engine built on an unsorted input
C14_Witness ==
    /\ MainDone
    /\ \A a \in Range(algorithms) : Returned(a)
    /\ ~IsAscending(initial_state)

\* C15 as stated: the misplaced-tiles count of a state a strategy pops never
\* exceeds the least number of adjacent swaps that turn the state into the
\* goal.
C15_MisplacedTilesAdmissible ==
    \A s \in Range(Candidate) : misplaced_tiles_heuristic(s) <= MinSwaps(s)

\* C15 amended: the misplaced-tiles count of a state is at most twice the
\* least number of adjacent swaps that turn the state into the goal (a swap
\* changes two positions), and it can exceed that least number.
C15_MisplacedTilesWithinTwiceSwaps ==
    \A s \in Subjects : misplaced_tiles_heuristic(s) <= 2 * MinSwaps(s)

\* a strategy is about to pop a state one swap away from the goal whose
\* misplaced-tiles count is two
C15_Witness ==
    \E s \in Range(Candidate) :
        /\ MinSwaps(s) = 1
        /\ misplaced_tiles_heuristic(s) = 2

\* C16: for the initial state and for every state a strategy pops or climbs
\* to (all rearrangements of the initial sequence), inversion_heuristic is 0
\* exactly when the state is ascending, and misplaced_tiles_heuristic and
\* absolute_difference_heuristic are each 0 exactly when the state is the
\* goal sequence.
C16_ZeroExactlyAtGoal ==
    \A s \in Subjects :
        /\ IsRearrangement(s, initial_state)
        /\ inversion_heuristic(s) = 0 <=> IsAscending(s)
        /\ misplaced_tiles_heuristic(s) = 0 <=> s = goal_state
        /\ absolute_difference_heuristic(s) = 0 <=> s = goal_state

\* a strategy is about to pop the goal on an input that was not sorted: the
\* scores are zero for the one state and not zero for the other
C16_Witness ==
    /\ ~IsAscending(initial_state)
    /\ \E s \in Range(Candidate) :
          /\ s = goal_state
          /\ absolute_difference_heuristic(s) = 0
          /\ absolute_difference_heuristic(initial_state) > 0

\* number of positions at which two sequences of one length differ
DiffCount(s, t) == Cardinality({i \in 1..Len(s) : s[i] # t[i]})

\* the cost and the state of an entry of the heap of the running strategy
EntryCost(e) == IF pc = "a_star_search" THEN e[2] ELSE e[1]

EntryState(e) ==
    CASE pc \in {"breadth_first_search", "depth_first_search"} -> e[1]
      [] pc \in {"uniform_cost_search", "greedy_search"} -> e[2]
      [] pc = "a_star_search" -> e[3]

EntryPath(e) == e[Len(e)]

\* the states of the entries of the frontier, in the order of the frontier
FrontierStates == [k \in 1..Len(Frontier) |-> EntryState(Frontier[k])]

\* C17: while uniform_cost_search or a_star_search runs, the cost of every
\* entry of the heap is the number of positions at which the entry's state
\* differs from the initial sequence, whatever path the entry carries; hence
\* two entries of one state carry one cost, and an entry of the initial
\* sequence carries 0.
C17_CostIsDistanceFromInitial ==
    pc \in {"uniform_cost_search", "a_star_search"} =>
        \A k \in 1..Len(heap) :
            EntryCost(heap[k]) = DiffCount(EntryState(heap[k]), initial_state)

\* the heap holds the initial sequence again, reached by a path of two steps,
\* at cost 0, and an entry whose cost is not the number of steps of its path
C17_Witness ==
    /\ pc \in {"uniform_cost_search", "a_star_search"}
    /\ \E k \in 1..Len(heap) :
          /\ EntryState(heap[k]) = initial_state
          /\ Transitions(EntryPath(heap[k])) = 2
          /\ EntryCost(heap[k]) = 0
    /\ \E k \in 1..Len(heap) :
          /\ EntryCost(heap[k]) > 0
          /\ EntryCost(heap[k]) # Transitions(EntryPath(heap[k]))

\* C18: a pass of the loop of a path strategy that pops a state already in
\* the visited log takes that one entry from the frontier and nothing else; a
\* pass that pops a new state which is not the goal takes it and adds one
\* entry for each of its N-1 adjacent swaps, whether or not the swapped state
\* is in the visited log or in the frontier already.
C18_SuccessorsInsertedUnfiltered ==
    [][(pc \in PathStrategies /\ pc' = pc) =>
        LET s == Candidate[1]
            added(t) == IF is_visited(s) THEN 0
                        ELSE Cardinality({i \in 1..(Len(s) - 1) : AdjacentSwap(s, i) = t})
            taken(t) == IF t = s THEN 1 ELSE 0
        IN  /\ Len(Frontier') = Len(Frontier) - 1
                   + (IF is_visited(s) THEN 0 ELSE state_length - 1)
            /\ \A t \in Range(FrontierStates) \cup Range(FrontierStates') :
                  Count(FrontierStates', t)
                     = Count(FrontierStates, t) - taken(t) + added(t)]_vars

\* the frontier holds one state twice and a state of the visited log
C18_Witness ==
    /\ pc \in PathStrategies
    /\ state_length >= 3
    /\ \E j, k \in 1..Len(Frontier) :
          j # k /\ FrontierStates[j] = FrontierStates[k]
    /\ \E k \in 1..Len(Frontier) : is_visited(FrontierStates[k])

\* the number of nodes explored that the strategy which has just returned to
\* run_experiment reports: the length of the visited log of a path strategy,
\* the count of states examined of hill climbing
ReportedNodesExplored ==
    LET algorithm == algorithms[alg_index]
    IN  IF algorithm = "hill_climbing_search"
        THEN results[algorithm].snd
        ELSE Len(results[algorithm].fst)

\* C19: run_experiment adds to its total, for each generated sequence, the
\* number of nodes the named strategy reports to have explored on it, and it
\* returns the total divided by num_iterations: the average of these numbers.
C19_AverageOfNodesExplored ==
    [][/\ pc = "run_experiment_returned" =>
             total_nodes_explored' = total_nodes_explored + ReportedNodesExplored
       /\ pc' = "done" =>
             experiment_return' = Quotient(total_nodes_explored, num_iterations)]_vars

\* the truth assignments of the variables
Assignments == [PropositionalVariables -> BOOLEAN]

\* an assignment makes a clause true when it makes one of its literals true
Satisfies(m, c) == \E lit \in c.literals : m[lit.variable] = lit.positive

\* every assignment that makes all clauses of kb true makes q true
Entails(kb, q) ==
    \A m \in Assignments :
        (\A k \in 1..Len(kb) : Satisfies(m, kb[k])) => Satisfies(m, q)

\* C20: when a call of inference is over, it has returned True if the
\* knowledge base entails the query literal and False if it does not.
C20_InferenceDecidesEntailment ==
    (caller = "inference" /\ pc = "done") =>
        inference_return =
            (IF Entails(knowledge_base, query) THEN "True" ELSE "False")

\* the literal of the same variable and the other polarity
Complement(lit) == [variable |-> lit.variable, positive |-> ~lit.positive]

\* some literal of the first set has its complement in the second
Clash(ls1, ls2) == \E lit \in ls1 : Complement(lit) \in ls2

\* the literals of both sets without those of a complementary pair
Remaining(ls1, ls2) ==
    {lit \in ls1 \cup ls2 :
        /\ ~(lit \in ls1 /\ Complement(lit) \in ls2)
        /\ ~(lit \in ls2 /\ Complement(lit) \in ls1)}

NoVariableTwice(ls) == \A l1, l2 \in ls : l1.variable = l2.variable => l1 = l2

ResolutionDone == caller = "resolution" /\ pc = "done"

\* C21 as stated: resolution returns None exactly when no literal of clause1
\* has its complement in clause2; otherwise the returned clause holds exactly
\* the literals of both clauses that are in no complementary pair, and no
\* variable twice.
C21_ResolventIsRemainingLiterals ==
    ResolutionDone =>
        /\ resolvent = None <=> ~Clash(clause1.literals, clause2.literals)
        /\ resolvent # None =>
              /\ resolvent.literals = Remaining(clause1.literals, clause2.literals)
              /\ NoVariableTwice(resolvent.literals)

\* C21 amended: resolution returns None exactly when no literal of clause1 has
\* its complement in clause2; otherwise the returned clause holds one literal
\* for each variable of the literals of both clauses that are in no
\* complementary pair, and no other literal: it holds no variable twice, and
\* it is exactly those literals when they hold no variable twice (as they do
\* when neither clause holds a variable in both polarities).
C21_ResolventKeepsOneLiteralPerVariable ==
    ResolutionDone =>
        LET remaining == Remaining(clause1.literals, clause2.literals)
        IN  /\ resolvent = None <=> ~Clash(clause1.literals, clause2.literals)
            /\ resolvent # None =>
                  /\ resolvent.literals \subseteq remaining
                  /\ NoVariableTwice(resolvent.literals)
                  /\ \A lit \in remaining :
                        \E kept \in resolvent.literals : kept.variable = lit.variable
                  /\ NoVariableTwice(remaining) => resolvent.literals = remaining
                  /\ (NoVariableTwice(clause1.literals)
                        /\ NoVariableTwice(clause2.literals))
                       => NoVariableTwice(remaining)

\* resolution has returned on a clause that holds a variable in both
\* polarities beside the literal resolved upon: one of the two is dropped
C21_Witness ==
    /\ ResolutionDone
    /\ resolvent # None
    /\ ~NoVariableTwice(Remaining(clause1.literals, clause2.literals))
    /\ Cardinality(resolvent.literals) = 1

\* the position in the frontier of the entry the running path strategy pops
\* next
PoppedIndex ==
    CASE pc = "breadth_first_search" -> queue_get_index(queue)
      [] pc = "depth_first_search" -> Len(stack)
      [] pc \in {"uniform_cost_search", "greedy_search"} -> heap_least3(heap)
      [] pc = "a_star_search" -> heap_least4(heap)

\* C22: a pass of the loop of a path strategy that pops a state not yet in
\* the visited log appends it to the log, whether the state is the goal or
\* is expanded; the pass that returns hands back the log so extended and the
\* path of the popped entry. Hence the first entry of a log is the initial
\* state, and in a returned log the goal is the last entry and no other.
C22_MarkedVisitedBeforeGoalTest ==
    /\ [][(pc \in PathStrategies /\ ~is_visited(Candidate[1])) =>
            /\ visited_states' = Append(visited_states, tuple(Candidate[1]))
            /\ pc' # pc =>
                  /\ Candidate[1] = goal_state
                  /\ results'[pc] = Pair(visited_states',
                                         EntryPath(Frontier[PoppedIndex]))]_vars
    /\ []((pc \in PathStrategies /\ Len(visited_states) > 0) =>
            visited_states[1] = tuple(initial_state))
    /\ [](\A a \in PathStrategies : Returned(a) =>
            LET log == results[a].fst
            IN  /\ Len(log) >= 1
                /\ log[1] = tuple(initial_state)
                /\ \A k \in 1..Len(log) :
                      log[k] = tuple(goal_state) <=> k = Len(log))

\* a path strategy has returned a log of at least three states
C22_Witness ==
    \E a \in PathStrategies :
        /\ Returned(a)
        /\ Len(results[a].fst) >= 3
        /\ Last(results[a].fst) = tuple(goal_state)

\* the priority key the running heap strategy gives a state
Key(s) ==
    CASE pc = "uniform_cost_search" -> misplaced_elements_cost(s)
      [] pc = "greedy_search" -> absolute_difference_heuristic(s)
      [] pc = "a_star_search" ->
            absolute_difference_heuristic(s) + misplaced_elements_cost(s)

\* a pass of the loop of a heap strategy takes the i-th entry out of the heap
\* (what it pushes comes after the entries that stay)
Pops(i) ==
    /\ Len(heap') >= Len(heap) - 1
    /\ SubSeq(heap', 1, Len(heap) - 1) = without(heap, i)

\* C23: while a heap strategy runs, the first field of every entry is the
\* priority key of the entry's state (misplaced_elements_cost for
\* uniform-cost, absolute_difference_heuristic for greedy, their sum for A*),
\* and every pass of its loop takes out an entry whose state has the least
\* key of all states in the heap.
C23_PopsLeastKey ==
    /\ [](pc \in HeapStrategies =>
            \A k \in 1..Len(heap) : heap[k][1] = Key(EntryState(heap[k])))
    /\ [][(pc \in HeapStrategies) =>
            \E i \in 1..Len(heap) :
                /\ Pops(i)
                /\ \A j \in 1..Len(heap) :
                      Key(EntryState(heap[i])) <= Key(EntryState(heap[j]))]_vars

\* a heap strategy has popped and its heap holds states of different keys
C23_Witness ==
    /\ pc \in HeapStrategies
    /\ Len(visited_states) >= 2
    /\ \E j, k \in 1..Len(heap) :
          Key(EntryState(heap[j])) < Key(EntryState(heap[k]))

\* the numbers of a path, tuple after tuple
RECURSIVE FlatPath(_)
FlatPath(path) ==
    IF Len(path) = 0 THEN <<>> ELSE path[1].tuple \o FlatPath(Tail(path))

\* the numbers of the fields of an entry after the priority key, in order
FlatRest(e) ==
    IF pc = "a_star_search"
    THEN <<e[2]>> \o e[3] \o FlatPath(e[4])
    ELSE e[2] \o FlatPath(e[3])

\* lexicographic order of sequences of numbers: the first differing position
\* decides, a proper prefix comes first
SeqLess(a, b) ==
    \E k \in 1..(Len(a) + 1) :
        /\ k <= Len(b)
        /\ \A m \in 1..(k - 1) : a[m] = b[m]
        /\ k = Len(a) + 1 \/ a[k] < b[k]

\* the comparison of two entries that heapq makes in the running strategy
EntryLess(e, f) ==
    IF pc = "a_star_search" THEN entry4_lt(e, f) ELSE entry3_lt(e, f)

\* C24: every pass of the loop of a heap strategy takes out, among the
\* entries that tie on the least priority key, one whose remaining fields (for
\* uniform-cost and greedy the state, then the path; for A* the cost, then the
\* state, then the path) come first in lexicographic order. The comparison is
\* defined on every two entries of the heap, states being lists of one length
\* and paths lists of tuples, and it is a total order: of two different
\* entries exactly one is less than the other.
C24_TiesBrokenLexicographically ==
    /\ [][(pc \in HeapStrategies) =>
            \E i \in 1..Len(heap) :
                /\ Pops(i)
                /\ \A j \in 1..Len(heap) :
                      heap[j][1] = heap[i][1] =>
                          \/ FlatRest(heap[j]) = FlatRest(heap[i])
                          \/ SeqLess(FlatRest(heap[i]), FlatRest(heap[j]))]_vars
    /\ [](pc \in HeapStrategies =>
            \A j, k \in 1..Len(heap) :
                /\ DOMAIN EntryState(heap[j]) = 1..state_length
                /\ \A m \in 1..Len(EntryPath(heap[j])) :
                      DOMAIN EntryPath(heap[j])[m] = {"tuple"}
                /\ heap[j] = heap[k] =>
                      ~EntryLess(heap[j], heap[k])
                /\ heap[j] # heap[k] =>
                      EntryLess(heap[j], heap[k]) # EntryLess(heap[k], heap[j])
                /\ EntryLess(heap[j], heap[k]) <=>
                      \/ heap[j][1] < heap[k][1]
                      \/ /\ heap[j][1] = heap[k][1]
                         /\ SeqLess(FlatRest(heap[j]), FlatRest(heap[k])))

\* a heap strategy has popped and its heap holds two entries that tie on the
\* least key and differ in state, and two that hold one state under two paths
C24_Witness ==
    /\ pc \in HeapStrategies
    /\ Len(visited_states) >= 1
    /\ \E j, k \in 1..Len(heap) :
          /\ \A m \in 1..Len(heap) : heap[j][1] <= heap[m][1]
          /\ heap[j][1] = heap[k][1]
          /\ EntryState(heap[j]) # EntryState(heap[k])

\* the least number of adjacent swaps that turn s into t, by layers
RECURSIVE SwapLayers(_, _, _, _)
SwapLayers(layer, seen, d, t) ==
    IF t \in layer THEN d
    ELSE IF layer = {} THEN -1
    ELSE LET next == Neighbours(layer) \ seen
         IN  SwapLayers(next, seen \cup next, d + 1, t)

DistanceFromInitial(t) == SwapLayers({initial_state}, {initial_state}, 0, t)

\* the entries of a log are in non-decreasing distance from the initial state
ByDistance(log) ==
    \A k \in 1..(Len(log) - 1) :
        DistanceFromInitial(log[k].tuple) <= DistanceFromInitial(log[k + 1].tuple)

\* C25: a pass of the loop of breadth_first_search takes out the entry at the
\* head of the queue and puts what it inserts at the end; the depths (number
\* of transitions of the path) of the entries of the queue never decrease
\* from head to end, so the depths of successively popped candidates never
\* decrease, and the visited log, while it is built and when it is returned,
\* lists states in non-decreasing distance from the initial state.
C25_BfsPopsInInsertionOrder ==
    /\ [][(pc = "breadth_first_search") =>
            /\ Len(queue') >= Len(queue) - 1
            /\ SubSeq(queue', 1, Len(queue) - 1) = Tail(queue)
            /\ (pc' = pc /\ Len(queue') > 0) =>
                  Transitions(queue'[1][2]) >= Transitions(queue[1][2])]_vars
    /\ [](pc = "breadth_first_search" =>
            /\ \A k \in 1..(Len(queue) - 1) :
                  Transitions(queue[k][2]) <= Transitions(queue[k + 1][2])
            /\ ByDistance(visited_states))
    /\ [](Returned("breadth_first_search") =>
            ByDistance(results["breadth_first_search"].fst))

\* breadth-first search has returned a log that reaches distance two and
\* holds two states of one distance
C25_Witness ==
    /\ Returned("breadth_first_search")
    /\ LET log == results["breadth_first_search"].fst
       IN  /\ Len(log) >= 4
           /\ DistanceFromInitial(Last(log).tuple) >= 2
           /\ DistanceFromInitial(log[2].tuple) = DistanceFromInitial(log[3].tuple)

\* C26: a pass of the loop of depth_first_search takes out the entry pushed
\* last (the end of the stack) and pushes after the entries that stay; right
\* after a pass that expands a state, the entry to be popped next holds that
\* state with its last two positions swapped, on the path of the expanded
\* state extended by it.
C26_DfsPopsMostRecent ==
    [][(pc = "depth_first_search") =>
        LET popped == stack[Len(stack)]
        IN  /\ Len(stack') >= Len(stack) - 1
            /\ SubSeq(stack', 1, Len(stack) - 1) = SubSeq(stack, 1, Len(stack) - 1)
            /\ successor_calls' # successor_calls =>
                  /\ Len(stack') = Len(stack) - 1 + (state_length - 1)
                  /\ stack'[Len(stack')][1]
                        = AdjacentSwap(popped[1], state_length - 1)
                  /\ stack'[Len(stack')][2]
                        = Append(popped[2], tuple(stack'[Len(stack')][1]))]_vars

\* depth-first search has expanded a state of three values and the entry on
\* top of the stack is not the one for the swap of the first two positions
C26_Witness ==
    /\ pc = "depth_first_search"
    /\ state_length >= 3
    /\ successor_calls >= 1
    /\ Len(stack) >= 2
    /\ LET expanded == Last(visited_states).tuple
       IN  /\ Last(stack)[1] = AdjacentSwap(expanded, state_length - 1)
           /\ Last(stack)[1] # AdjacentSwap(expanded, 1)

\* a path from the initial state to s whose every step swaps two adjacent
\* positions
IsSwapPathTo(path, s) ==
    /\ Len(path) >= 1
    /\ path[1] = tuple(initial_state)
    /\ path[Len(path)] = tuple(s)
    /\ \A k \in 1..(Len(path) - 1) :
          \E i \in 1..(state_length - 1) :
              path[k + 1].tuple = AdjacentSwap(path[k].tuple, i)

\* C27: the path of every entry in the frontier of a running path strategy
\* starts with the initial state, ends with the entry's state and goes from
\* each element to the next by one swap of adjacent positions; so does every
\* returned path, which ends with the goal: it holds the initial state and
\* one entry per transition.
C27_PathsAreSwapChains ==
    /\ pc \in PathStrategies =>
          \A k \in 1..Len(Frontier) :
              IsSwapPathTo(EntryPath(Frontier[k]), EntryState(Frontier[k]))
    /\ \A a \in PathStrategies :
          Returned(a) => IsSwapPathTo(results[a].snd, goal_state)

\* the frontier holds an entry whose path has three transitions
C27_Witness ==
    /\ pc \in PathStrategies
    /\ \E k \in 1..Len(Frontier) : Transitions(EntryPath(Frontier[k])) >= 3

\* the least inversion count among the adjacent swaps of s
LeastNeighbourInversions(s) ==
    CHOOSE m \in {Inversions(AdjacentSwap(s, i)) : i \in 1..(Len(s) - 1)} :
        \A i \in 1..(Len(s) - 1) : m <= Inversions(AdjacentSwap(s, i))

\* the lowest swap position whose swap has that least count
LowestBestSwap(s) ==
    CHOOSE i \in 1..(Len(s) - 1) :
        /\ Inversions(AdjacentSwap(s, i)) = LeastNeighbourInversions(s)
        /\ \A j \in 1..(i - 1) :
              Inversions(AdjacentSwap(s, j)) > LeastNeighbourInversions(s)

\* C28: a pass of the loop of hill_climbing_search on a current state of
\* inversion count h > 0 counts all N-1 successors as examined; when the
\* least inversion count among them is less than h it moves to the successor
\* of that count with the lowest swap index and goes on, otherwise it returns
\* the current state, unchanged, with the count.
C28_MovesToStrictlyBestNeighbour ==
    [][(pc = "hill_climbing_search" /\ Inversions(current_state) > 0) =>
        /\ nodes_explored' = nodes_explored + (state_length - 1)
        /\ IF LeastNeighbourInversions(current_state) < Inversions(current_state)
           THEN /\ current_state'
                     = AdjacentSwap(current_state, LowestBestSwap(current_state))
                /\ pc' = pc
                /\ results' = results
           ELSE /\ current_state' = current_state
                /\ pc' # pc
                /\ results'["hill_climbing_search"]
                     = Pair(current_state, nodes_explored')]_vars

\* hill climbing has moved from a state two of whose successors tie on the
\* least inversion count, taking the swap of the lower index
C28_Witness ==
    /\ pc = "hill_climbing_search"
    /\ successor_calls = 1
    /\ \E i, j \in 1..(state_length - 1) :
          /\ i < j
          /\ Inversions(AdjacentSwap(initial_state, i))
                = LeastNeighbourInversions(initial_state)
          /\ Inversions(AdjacentSwap(initial_state, j))
                = LeastNeighbourInversions(initial_state)
          /\ AdjacentSwap(initial_state, i) # AdjacentSwap(initial_state, j)
          /\ current_state = AdjacentSwap(initial_state, i)

\* C29: while hill_climbing_search runs its count is N-1 times the number of
\* moves made; the pass that finds zero inversions returns the count as it
\* is, and the count returned is N-1 times the inversion count of the initial
\* sequence.
C29_CountIsMovesTimesSuccessors ==
    /\ [](pc = "hill_climbing_search" =>
            nodes_explored = (state_length - 1) * successor_calls)
    /\ [][(pc = "hill_climbing_search" /\ Inversions(current_state) = 0) =>
            /\ nodes_explored' = nodes_explored
            /\ results'["hill_climbing_search"].snd = nodes_explored]_vars
    /\ [](Returned("hill_climbing_search") =>
            results["hill_climbing_search"].snd
                = (Len(initial_state) - 1) * Inversions(initial_state))

\* hill climbing has returned a count of N-1 times two or more inversions
C29_Witness ==
    /\ Returned("hill_climbing_search")
    /\ Inversions(initial_state) >= 2
    /\ results["hill_climbing_search"].snd >= 2 * (state_length - 1)
    /\ state_length >= 3

----------------------------------------------------------------------------
\* print_final_path of class Search

ValueError == [tag |-> "ValueError"]

\* list.index(x): the 0-based position of the first element equal to x;
\* ValueError when there is none
index(list, x) ==
    IF \E k \in 1..Len(list) : list[k] = x
    THEN [tag |-> "int",
          value |-> (CHOOSE k \in 1..Len(list) :
                        /\ list[k] = x
                        /\ \A j \in 1..(k - 1) : list[j] # x) - 1]
    ELSE ValueError

\* the visited_index looked up for each state of the path, in order
print_final_path(log, path) == [k \in 1..Len(path) |-> index(log, path[k])]

\* C30: for every path strategy that has returned, each state of the returned
\* path occurs in the returned visited log: every lookup of print_final_path
\* finds a position, that of the first occurrence of the state in the log.
C30_PathStatesAreInVisitedLog ==
    \A a \in PathStrategies :
        Returned(a) =>
            LET log == results[a].fst
                path == results[a].snd
                found == print_final_path(log, path)
            IN  \A k \in 1..Len(path) :
                    /\ path[k] \in Range(log)
                    /\ found[k].tag = "int"
                    /\ log[found[k].value + 1] = path[k]

\* a path strategy has returned a path of three states whose last state is not
\* at the same position in the log as in the path
C30_Witness ==
    \E a \in PathStrategies :
        /\ Returned(a)
        /\ Len(results[a].snd) >= 3
        /\ Len(results[a].fst) > Len(results[a].snd)
        /\ print_final_path(results[a].fst, results[a].snd)[Len(results[a].snd)].value
              = Len(results[a].fst) - 1

\* the sequence without its last element
Front(s) == SubSeq(s, 1, Len(s) - 1)

\* some adjacent pair of the sequence holds equal values: one successor of the
\* sequence is the sequence itself
HasEqualAdjacentPair(s) == \E i \in 1..(Len(s) - 1) : s[i] = s[i + 1]

\* C31: the path returned by any path strategy contains no state twice, also
\* when a swap of equal adjacent values gives a successor equal to its parent.
\* What carries it: the path of every frontier entry ends in the entry's state,
\* and the states before it are pairwise different states of the visited log;
\* an entry is only returned when its state is not yet in that log.
C31_ReturnedPathIsSimple ==
    /\ \A a \in PathStrategies :
          Returned(a) => NoDuplicates(results[a].snd)
    /\ \A k \in 1..Len(Frontier) :
          LET path == EntryPath(Frontier[k])
          IN  /\ Len(path) >= 1
              /\ Last(path) = tuple(EntryState(Frontier[k]))
              /\ NoDuplicates(Front(path))
              /\ Range(Front(path)) \subseteq Range(visited_states)

\* a path of at least three states has been returned for an initial sequence
\* one of whose successors is the sequence itself
C31_Witness ==
    /\ HasEqualAdjacentPair(initial_state)
    /\ tuple(initial_state) \in {tuple(s) : s \in Range(successors(initial_state))}
    /\ \E a \in PathStrategies :
          /\ Returned(a)
          /\ Len(results[a].snd) >= 3
          /\ NoDuplicates(results[a].snd)

\* the state has the length and the multiset of values of the initial sequence
RearrangesInitial(s) == IsRearrangement(s, initial_state)

\* every tuple of the list is a rearrangement of the initial sequence
AllRearrangeInitial(list) ==
    \A k \in 1..Len(list) : RearrangesInitial(list[k].tuple)

\* C32: every state that appears in a frontier (as the state of an entry or in
\* its path), in a visited log, in a returned path or as the current or
\* returned state of hill climbing has the length and the multiset of values
\* of the initial sequence.
C32_StatesRearrangeInitial ==
    /\ \A k \in 1..Len(Frontier) :
          /\ RearrangesInitial(EntryState(Frontier[k]))
          /\ AllRearrangeInitial(EntryPath(Frontier[k]))
    /\ AllRearrangeInitial(visited_states)
    /\ \A a \in PathStrategies :
          Returned(a) =>
              /\ AllRearrangeInitial(results[a].fst)
              /\ AllRearrangeInitial(results[a].snd)
    /\ pc = "hill_climbing_search" => RearrangesInitial(current_state)
    /\ Returned("hill_climbing_search") =>
          RearrangesInitial(results["hill_climbing_search"].fst)

\* hill climbing has moved away from an initial sequence that holds a value
\* twice, after all five path strategies returned paths of several states
C32_Witness ==
    /\ pc = "hill_climbing_search"
    /\ current_state # initial_state
    /\ \E v \in Range(initial_state) : Count(initial_state, v) >= 2
    /\ \A a \in PathStrategies :
          /\ Returned(a)
          /\ Len(results[a].snd) >= 2
          /\ Len(results[a].fst) >= Len(results[a].snd)

====
